---- MODULE Spec2Model ----
(***************************************************************************)
(* UsersService (backend/src/modules/admin/access/users/users.service.ts)  *)
(* as a state machine.  The shared state is the users table behind         *)
(* UsersRepository; every caller in Procs runs one service call at a time. *)
(* A call is cut at its awaits: an action is the resolution of one awaited  *)
(* repository / hasher call together with the synchronous code that        *)
(* follows it up to the next await (or up to the return / throw).          *)
(* The invocation itself is folded into the first such segment.            *)
(*                                                                         *)
(* UsersRepository, UserMapper, HashHelper and Pagination are not part of  *)
(* the service file; they are modelled from the specification's            *)
(* description of them.  A rejected save or find has no effect on the      *)
(* table.                                                                  *)
(***************************************************************************)
EXTENDS Integers, Sequences, FiniteSets, TLC

\* ------------------------------------------------------------------ bounds
MaxId == 2
MaxPage == 2
MaxLimit == 2

\* the callers whose calls may overlap
Procs == {"c1", "c2"}
Ids == 1..MaxId

Usernames == {"alice", "bob"}
Passwords == {"p@ss1", "p@ss2"}
FirstNames == {"Ann", "Bea"}
Pages == 1..MaxPage
Limits == 1..MaxLimit

\* ------------------------------------------------------------ value shapes
Active == "active"
Blocked == "blocked"

UndefinedStr == "undefined"

NoPassword == [form |-> "none", of |-> ""]
Plain(p) == [form |-> "plain", of |-> p]

\* `undefined`, as findOne answers for an id that is not stored
Undefined == [id |-> 0, username |-> "", password |-> NoPassword,
              status |-> "", firstName |-> ""]

NoArg == [none |-> TRUE]
NoDto == [none |-> TRUE]
NoPage == [absent |-> TRUE, entities |-> <<>>, total |-> 0]

\* errors raised by the collaborators
NoError == [name |-> "none", code |-> "none"]
TimeoutError == [name |-> "TimeoutError", code |-> "none"]
OtherError == [name |-> "Error", code |-> "none"]
TypeError == [name |-> "TypeError", code |-> "none"]
PgUniqueConstraintViolation == "23505"
PgForeignKeyConstraintViolation == "23503"
PgNotNullConstraintViolation == "23502"
QueryFailedError(c) == [name |-> "QueryFailedError", code |-> c]

\* what a call hands to its caller
NoResult == [kind |-> "none", username |-> "", dto |-> NoDto]
Returned(dto) == [kind |-> "ok", username |-> "", dto |-> dto]
Thrown(kind) == [kind |-> kind, username |-> "", dto |-> NoDto]
NotFoundException == Thrown("NotFoundException")
UserExistsException(u) ==
  [kind |-> "UserExistsException", username |-> u, dto |-> NoDto]
ForeignKeyConflictException == Thrown("ForeignKeyConflictException")
InvalidCurrentPasswordException == Thrown("InvalidCurrentPasswordException")
RequestTimeoutException == Thrown("RequestTimeoutException")
InternalServerErrorException == Thrown("InternalServerErrorException")
\* an error that no catch block translates reaches the caller as it is
Uncaught(error) == Thrown(error.name)

ServiceExceptions ==
  {"NotFoundException", "UserExistsException", "ForeignKeyConflictException",
   "InvalidCurrentPasswordException", "RequestTimeoutException",
   "InternalServerErrorException"}

\* --------------------------------------------------------------- HashHelper
\* encrypt yields a digest, never the plaintext; compare accepts a plaintext
\* exactly for a digest made from it
encrypt(password) == [form |-> "bcrypt", of |-> password.of]
compare(plaintext, digest) == digest.form = "bcrypt" /\ digest.of = plaintext

\* --------------------------------------------------------------- UserMapper
toCreateEntity(dto) ==
  [id |-> 0, username |-> dto.username, password |-> Plain(dto.password),
   status |-> Active, firstName |-> dto.firstName]

\* the simple variant fills no relational fields; the modelled row has none
toCreateSimpleEntity(dto) ==
  [id |-> 0, username |-> dto.username, password |-> Plain(dto.password),
   status |-> Active, firstName |-> dto.firstName]

\* only the fields the partial dto holds are written
toUpdateEntity(entity, dto) ==
  [k \in DOMAIN entity |-> IF k \in DOMAIN dto THEN dto[k] ELSE entity[k]]

\* the response dto has no password field
toDto(entity) ==
  [id |-> entity.id, username |-> entity.username, status |-> entity.status,
   firstName |-> entity.firstName]

toDtoWithRelations(entity) == toDto(entity)

\* userDto.username of a Partial<UpdateUserRequestDto>
DtoUsername(dto) ==
  IF "username" \in DOMAIN dto THEN dto["username"] ELSE UndefinedStr

\* ----------------------------------------------------------- UsersRepository
Stored(d) == {i \in Ids : d[i] # Undefined}
FreeIds(d) == Ids \ Stored(d)
NewId(d) == CHOOSE i \in FreeIds(d) : \A j \in FreeIds(d) : i <= j

findOne(d, id) == d[id]

\* the unique index on username
UsernameTaken(d, entity) ==
  \E i \in Stored(d) : d[i].username = entity.username /\ i # entity.id

FindFaults == {TimeoutError, OtherError}
SaveFaults == {TimeoutError, OtherError,
               QueryFailedError(PgForeignKeyConstraintViolation),
               QueryFailedError(PgNotNullConstraintViolation)}
HashFaults == {OtherError}

\* save(entity): insert (id 0) or write the whole row; every way it can end
Persist(d, entity) ==
  IF UsernameTaken(d, entity)
    THEN [error |-> QueryFailedError(PgUniqueConstraintViolation),
          db |-> d, entity |-> entity]
    ELSE LET e == IF entity.id = 0 THEN [entity EXCEPT !.id = NewId(d)]
                                   ELSE entity
         IN [error |-> NoError, db |-> [d EXCEPT ![e.id] = e], entity |-> e]

save(d, entity) ==
  {[error |-> f, db |-> d, entity |-> entity] : f \in SaveFaults}
  \cup (IF entity.id = 0 /\ FreeIds(d) = {} THEN {} ELSE {Persist(d, entity)})

\* rows in id order
RECURSIVE RowsFrom(_, _)
RowsFrom(d, i) ==
  IF i > MaxId THEN <<>>
  ELSE (IF d[i] # Undefined THEN <<d[i]>> ELSE <<>>) \o RowsFrom(d, i + 1)

Slice(s, from, to) ==
  [k \in 1..(IF to < from THEN 0 ELSE to - from + 1) |-> s[from + k - 1]]

\* one page of the table and the count of all rows
getUsersAndCount(d, pagination) ==
  LET rows == RowsFrom(d, 1)
      skip == (pagination.page - 1) * pagination.limit
      last == IF skip + pagination.limit < Len(rows)
                THEN skip + pagination.limit ELSE Len(rows)
  IN [absent |-> FALSE, entities |-> Slice(rows, skip + 1, last),
      total |-> Len(rows)]

\* Pagination.of(pagination, total, dtos)
PaginationOf(pagination, total, dtos) ==
  [currentPage |-> pagination.page, limit |-> pagination.limit,
   totalRecords |-> total, content |-> dtos]

\* ------------------------------------------- what the operations return
\* mutant: the saved entity itself is returned, password included
createUser_return_Entity(userEntity) == Returned(userEntity)
\* line 99
createUser_return(userEntity) == Returned(toDto(userEntity))
\* line 130
createUserBase_return(userEntity) == Returned(toDto(userEntity))
\* line 168
updateUser_return(userEntity) == Returned(toDto(userEntity))
\* line 217
changePassword_return(userEntity) == Returned(toDto(userEntity))
\* line 232
blockUser_return(userEntity) == Returned(toDto(userEntity))
\* line 58
getUsers_return(pagination, totalUsers, UserDtos) ==
  Returned(PaginationOf(pagination, totalUsers, UserDtos))
\* line 84
getUserById_return(userEntity) == Returned(toDtoWithRelations(userEntity))

\* --------------------------------------------- the synchronous statements
\* mutant: the given password is compared with a digest of itself
passwordMatch_SelfCompare(currentPassword, userEntity) ==
  compare(currentPassword, encrypt(Plain(currentPassword)))
\* lines 205-208
passwordMatch(currentPassword, userEntity) ==
  compare(currentPassword, userEntity.password)
\* mutant: the plaintext is assigned instead of the digest
changePassword_assign_Plain(userEntity, digest) ==
  [userEntity EXCEPT !.password = Plain(digest.of)]
\* line 215: userEntity.password = <the digest>
changePassword_assign(userEntity, digest) ==
  [userEntity EXCEPT !.password = digest]
\* mutant: a fresh entity with only the id and the status is saved
blockUser_assign_Fresh(userEntity) ==
  [Undefined EXCEPT !.id = userEntity.id, !.status = Blocked]
\* line 229: userEntity.status = UserStatus.Blocked
blockUser_assign(userEntity) == [userEntity EXCEPT !.status = Blocked]
\* lines 97 and 128: userEntity.password = <the digest>
createUser_assign(userEntity, digest) ==
  [userEntity EXCEPT !.password = digest]

\* mutant: the digest is dropped, the entity keeps what the mapper put there
createUserBase_assign_Keep(userEntity, digest) == userEntity

\* line 128
createUserBase_assign(userEntity, digest) ==
  [userEntity EXCEPT !.password = digest]

\* ------------------------------------------------------ the catch blocks
\* mutant: the exception carries a property the dto does not have
createUser_catch_WrongName(error, userDto) ==
  IF error.code = PgUniqueConstraintViolation
    THEN UserExistsException(UndefinedStr)
  ELSE IF error.code = PgForeignKeyConstraintViolation
          \/ error.code = PgNotNullConstraintViolation
    THEN ForeignKeyConflictException
  ELSE IF error.name = "TimeoutError" THEN RequestTimeoutException
  ELSE InternalServerErrorException

\* mutant: the unique violation is not told from the other query errors
createUser_catch_NoUnique(error, userDto) ==
  IF error.code = PgForeignKeyConstraintViolation
     \/ error.code = PgNotNullConstraintViolation
    THEN ForeignKeyConflictException
  ELSE IF error.name = "TimeoutError" THEN RequestTimeoutException
  ELSE InternalServerErrorException

\* lines 100-115
createUser_catch(error, userDto) ==
  IF error.code = PgUniqueConstraintViolation
    THEN UserExistsException(userDto.username)
  ELSE IF error.code = PgForeignKeyConstraintViolation
          \/ error.code = PgNotNullConstraintViolation
    THEN ForeignKeyConflictException
  ELSE IF error.name = "TimeoutError" THEN RequestTimeoutException
  ELSE InternalServerErrorException

\* mutant: a not-null violation is not told from an unknown error
createUserBase_catch_NoNotNull(error, userDto) ==
  IF error.code = PgUniqueConstraintViolation
    THEN UserExistsException(userDto.username)
  ELSE IF error.code = PgForeignKeyConstraintViolation
    THEN ForeignKeyConflictException
  ELSE IF error.name = "TimeoutError" THEN RequestTimeoutException
  ELSE InternalServerErrorException

\* lines 131-147
createUserBase_catch(error, userDto) ==
  IF error.code = PgUniqueConstraintViolation
    THEN UserExistsException(userDto.username)
  ELSE IF error.code = PgForeignKeyConstraintViolation
          \/ error.code = PgNotNullConstraintViolation
    THEN ForeignKeyConflictException
  ELSE IF error.name = "TimeoutError" THEN RequestTimeoutException
  ELSE InternalServerErrorException

\* lines 169-184
updateUser_catch(error, userDto) ==
  IF error.code = PgUniqueConstraintViolation
    THEN UserExistsException(DtoUsername(userDto))
  ELSE IF error.code = PgForeignKeyConstraintViolation
          \/ error.code = PgNotNullConstraintViolation
    THEN ForeignKeyConflictException
  ELSE IF error.name = "TimeoutError" THEN RequestTimeoutException
  ELSE InternalServerErrorException

\* lines 218-224
changePassword_catch(error) ==
  IF error.name = "TimeoutError" THEN RequestTimeoutException
  ELSE InternalServerErrorException

\* lines 233-239
blockUser_catch(error) ==
  IF error.name = "TimeoutError" THEN RequestTimeoutException
  ELSE InternalServerErrorException

\* mutant: the NotFound thrown inside the try block is wrapped like the rest
getUsers_catch_Rewrap(error) ==
  IF error.name = "TimeoutError" THEN RequestTimeoutException
  ELSE InternalServerErrorException

\* lines 59-68
getUsers_catch(error) ==
  IF error.name = "NotFoundException" THEN NotFoundException
  ELSE IF error.name = "TimeoutError" THEN RequestTimeoutException
  ELSE InternalServerErrorException

\* -------------------------------------------------------------------- state
VARIABLES
  db,     \* the users table: id -> row, Undefined where no row is stored
  pc,     \* per caller: "idle" or the await its call is suspended at
  op,     \* per caller: the operation of its current (or last) call
  arg,    \* per caller: the arguments of the call in flight
  ent,    \* per caller: the call's local userEntity
  page,   \* per caller: getUsers' [userEntities, totalUsers]
  res,    \* per caller: what its last finished call returned or threw
  err,    \* per caller: the collaborator error that ended its last call
  calls   \* per caller: repository / hasher invocations made by the call,
          \* and whether the call has overlapped a call of another caller

vars == <<db, pc, op, arg, ent, page, res, err, calls>>

NoCalls == [find |-> 0, save |-> 0, hash |-> 0, overlap |-> FALSE]

\* inputs
\* users are created with the first of the first names; updates set any
CreateDtos ==
  [username : Usernames, password : Passwords, firstName : {"Ann"}]
FieldValues(k) == IF k = "username" THEN Usernames ELSE FirstNames
UpdateFields == {"username", "firstName"}
PartialDtos ==
  UNION {{f \in [S -> Usernames \cup FirstNames] :
            \A k \in S : f[k] \in FieldValues(k)} : S \in SUBSET UpdateFields}
ChangePasswordDtos == [currentPassword : Passwords, newPassword : Passwords]
PaginationRequests == [page : Pages, limit : Limits]

Init ==
  /\ db = [i \in Ids |-> Undefined]
  /\ pc = [p \in Procs |-> "idle"]
  /\ op = [p \in Procs |-> "none"]
  /\ arg = [p \in Procs |-> NoArg]
  /\ ent = [p \in Procs |-> Undefined]
  /\ page = [p \in Procs |-> NoPage]
  /\ res = [p \in Procs |-> NoResult]
  /\ err = [p \in Procs |-> NoError]
  /\ calls = [p \in Procs |-> NoCalls]

\* the caller invokes an operation: nothing has run yet but the call to the
\* first awaited collaborator
Invoke(p, name, a, at) ==
  /\ pc[p] = "idle"
  /\ pc' = [pc EXCEPT ![p] = at]
  /\ op' = [op EXCEPT ![p] = name]
  /\ arg' = [arg EXCEPT ![p] = a]
  /\ ent' = [ent EXCEPT ![p] = Undefined]
  /\ page' = [page EXCEPT ![p] = NoPage]
  /\ res' = [res EXCEPT ![p] = NoResult]
  /\ err' = [err EXCEPT ![p] = NoError]
  /\ calls' = [q \in Procs |->
                 IF q = p
                   THEN [NoCalls EXCEPT
                           !.overlap = \E r \in Procs \ {p} : pc[r] # "idle"]
                 ELSE IF pc[q] # "idle" THEN [calls[q] EXCEPT !.overlap = TRUE]
                 ELSE calls[q]]
  /\ UNCHANGED db

\* the call ends: it returns or throws `result`; `error` is what a
\* collaborator raised (NoError when none did); its local entity is gone
Finish(p, result, error) ==
  /\ pc' = [pc EXCEPT ![p] = "idle"]
  /\ res' = [res EXCEPT ![p] = result]
  /\ err' = [err EXCEPT ![p] = error]
  /\ ent' = [ent EXCEPT ![p] = Undefined]
  /\ UNCHANGED <<op, arg, page>>

\* the call goes on to its next await with local entity e
Goto(p, at, e) ==
  /\ pc' = [pc EXCEPT ![p] = at]
  /\ ent' = [ent EXCEPT ![p] = e]
  /\ UNCHANGED <<op, arg, page, res, err>>

Count(p, what) == calls' = [calls EXCEPT ![p][what] = @ + 1]

\* creates in flight that have not saved yet
CreatesInFlight ==
  {q \in Procs : pc[q] \in {"createUser_encrypt", "createUser_save",
                            "createUserBase_encrypt", "createUserBase_save"}}

\* ------------------------------------------------------------- createUser
createUser(p) ==
  /\ Cardinality(FreeIds(db)) > Cardinality(CreatesInFlight)
  /\ \E userDto \in CreateDtos :
       Invoke(p, "createUser", userDto, "createUser_encrypt")

\* lines 96-97: toCreateEntity, then the awaited HashHelper.encrypt
createUser_encrypt(p) ==
  /\ pc[p] = "createUser_encrypt"
  /\ Count(p, "hash")
  /\ UNCHANGED db
  /\ LET userEntity == toCreateEntity(arg[p])
     IN \/ Goto(p, "createUser_save",
                createUser_assign(userEntity, encrypt(userEntity.password)))
        \/ \E error \in HashFaults :
             Finish(p, createUser_catch(error, arg[p]), error)

\* lines 98-115: the awaited save, toDto, and the catch block
createUser_save(p) ==
  /\ pc[p] = "createUser_save"
  /\ Count(p, "save")
  /\ \E o \in save(db, ent[p]) :
       /\ db' = o.db
       /\ IF o.error = NoError
            THEN Finish(p, createUser_return(o.entity), NoError)
            ELSE Finish(p, createUser_catch(o.error, arg[p]), o.error)

\* --------------------------------------------------------- createUserBase
createUserBase(p) ==
  /\ Cardinality(FreeIds(db)) > Cardinality(CreatesInFlight)
  /\ \E userDto \in CreateDtos :
       Invoke(p, "createUserBase", userDto, "createUserBase_encrypt")

createUserBase_encrypt(p) ==
  /\ pc[p] = "createUserBase_encrypt"
  /\ Count(p, "hash")
  /\ UNCHANGED db
  /\ LET userEntity == toCreateSimpleEntity(arg[p])
     IN \/ Goto(p, "createUserBase_save",
                createUserBase_assign(userEntity,
                                      encrypt(userEntity.password)))
        \/ \E error \in HashFaults :
             Finish(p, createUserBase_catch(error, arg[p]), error)

createUserBase_save(p) ==
  /\ pc[p] = "createUserBase_save"
  /\ Count(p, "save")
  /\ \E o \in save(db, ent[p]) :
       /\ db' = o.db
       /\ IF o.error = NoError
            THEN Finish(p, createUserBase_return(o.entity), NoError)
            ELSE Finish(p, createUserBase_catch(o.error, arg[p]), o.error)

\* ------------------------------------------------------------- updateUser
updateUser(p) ==
  \E id \in Ids, userDto \in PartialDtos :
    Invoke(p, "updateUser", [id |-> id, userDto |-> userDto],
           "updateUser_findOne")

\* lines 160-163: the awaited findOne is outside the try block
updateUser_findOne(p) ==
  /\ pc[p] = "updateUser_findOne"
  /\ Count(p, "find")
  /\ UNCHANGED db
  /\ \/ \E error \in FindFaults : Finish(p, Uncaught(error), error)
     \/ LET userEntity == findOne(db, arg[p].id)
        IN IF userEntity = Undefined
             THEN Finish(p, NotFoundException, NoError)
             ELSE Goto(p, "updateUser_save", userEntity)

\* lines 166-184: toUpdateEntity, the awaited save, toDto, the catch block
updateUser_save(p) ==
  /\ pc[p] = "updateUser_save"
  /\ Count(p, "save")
  /\ \E o \in save(db, toUpdateEntity(ent[p], arg[p].userDto)) :
       /\ db' = o.db
       /\ IF o.error = NoError
            THEN Finish(p, updateUser_return(o.entity), NoError)
            ELSE Finish(p, updateUser_catch(o.error, arg[p].userDto), o.error)

\* --------------------------------------------------------- changePassword
changePassword(p) ==
  \E userId \in Ids, changePasswordDto \in ChangePasswordDtos :
    Invoke(p, "changePassword",
           [userId |-> userId,
            currentPassword |-> changePasswordDto.currentPassword,
            newPassword |-> changePasswordDto.newPassword],
           "changePassword_findOne")

\* lines 199-203: outside the try block
changePassword_findOne(p) ==
  /\ pc[p] = "changePassword_findOne"
  /\ Count(p, "find")
  /\ UNCHANGED db
  /\ \/ \E error \in FindFaults : Finish(p, Uncaught(error), error)
     \/ LET userEntity == findOne(db, arg[p].userId)
        IN IF userEntity = Undefined
             THEN Finish(p, NotFoundException, NoError)
             ELSE Goto(p, "changePassword_compare", userEntity)

\* lines 205-212: the awaited HashHelper.compare, outside the try block
changePassword_compare(p) ==
  /\ pc[p] = "changePassword_compare"
  /\ UNCHANGED <<db, calls>>
  /\ \/ \E error \in HashFaults : Finish(p, Uncaught(error), error)
     \/ IF ~passwordMatch(arg[p].currentPassword, ent[p])
          THEN Finish(p, InvalidCurrentPasswordException, NoError)
          ELSE Goto(p, "changePassword_encrypt", ent[p])

\* line 215
changePassword_encrypt(p) ==
  /\ pc[p] = "changePassword_encrypt"
  /\ Count(p, "hash")
  /\ UNCHANGED db
  /\ \/ Goto(p, "changePassword_save",
             changePassword_assign(ent[p],
                                   encrypt(Plain(arg[p].newPassword))))
     \/ \E error \in HashFaults :
          Finish(p, changePassword_catch(error), error)

\* lines 216-224
changePassword_save(p) ==
  /\ pc[p] = "changePassword_save"
  /\ Count(p, "save")
  /\ \E o \in save(db, ent[p]) :
       /\ db' = o.db
       /\ IF o.error = NoError
            THEN Finish(p, changePassword_return(ent[p]), NoError)
            ELSE Finish(p, changePassword_catch(o.error), o.error)

\* -------------------------------------------------------------- blockUser
blockUser(p) ==
  \E id \in Ids : Invoke(p, "blockUser", [id |-> id], "blockUser_findOne")

\* lines 228-229: outside the try block; there is no check for a missing
\* row, so the assignment to userEntity.status throws a TypeError on undefined
blockUser_findOne(p) ==
  /\ pc[p] = "blockUser_findOne"
  /\ Count(p, "find")
  /\ UNCHANGED db
  /\ \/ \E error \in FindFaults : Finish(p, Uncaught(error), error)
     \/ LET userEntity == findOne(db, arg[p].id)
        IN IF userEntity = Undefined
             THEN Finish(p, Uncaught(TypeError), TypeError)
             ELSE Goto(p, "blockUser_save", blockUser_assign(userEntity))

\* mutant: a save that timed out is tried again
blockUser_save_Retry(p) ==
  /\ pc[p] = "blockUser_save"
  /\ Count(p, "save")
  /\ \E o \in save(db, ent[p]) :
       /\ db' = o.db
       /\ IF o.error = NoError
            THEN Finish(p, blockUser_return(ent[p]), NoError)
          ELSE IF o.error = TimeoutError
            THEN Goto(p, "blockUser_save", ent[p])
          ELSE Finish(p, blockUser_catch(o.error), o.error)

\* lines 230-239
blockUser_save(p) ==
  /\ pc[p] = "blockUser_save"
  /\ Count(p, "save")
  /\ \E o \in save(db, ent[p]) :
       /\ db' = o.db
       /\ IF o.error = NoError
            THEN Finish(p, blockUser_return(ent[p]), NoError)
            ELSE Finish(p, blockUser_catch(o.error), o.error)

\* --------------------------------------------------------------- getUsers
getUsers(p) ==
  \E pagination \in PaginationRequests :
    Invoke(p, "getUsers", pagination, "getUsers_getUsersAndCount")

\* the NotFoundException that line 53 throws, as the catch block sees it
ThrownNotFound == [name |-> "NotFoundException", code |-> "none"]

\* mutant: only the total is looked at
IsEmptyPage_TotalOnly(fetched) == fetched.total = 0

\* line 52: userEntities?.length is falsy for an absent and for an empty list
IsEmptyPage(fetched) ==
  fetched.absent \/ Len(fetched.entities) = 0 \/ fetched.total = 0

\* what the repository may answer: the page, or no list at all
FetchAnswers(d, pagination) == {getUsersAndCount(d, pagination), NoPage}

\* lines 48-54, and the catch block for what they throw
getUsers_getUsersAndCount(p) ==
  /\ pc[p] = "getUsers_getUsersAndCount"
  /\ Count(p, "find")
  /\ UNCHANGED db
  /\ \/ \E error \in FindFaults : Finish(p, getUsers_catch(error), error)
     \/ \E fetched \in FetchAnswers(db, arg[p]) :
          /\ page' = [page EXCEPT ![p] = fetched]
          /\ UNCHANGED <<op, arg, ent>>
          /\ IF IsEmptyPage(fetched)
               THEN /\ pc' = [pc EXCEPT ![p] = "idle"]
                    /\ res' = [res EXCEPT ![p] = getUsers_catch(ThrownNotFound)]
                    /\ UNCHANGED err
               ELSE /\ pc' = [pc EXCEPT ![p] = "getUsers_map"]
                    /\ UNCHANGED <<res, err>>

\* what the mapper or Pagination.of may throw
MapFaults == {OtherError, TypeError}

\* the orders in which the mappings of n entities may complete
Orders(n) == {f \in [1..n -> 1..n] : \A i, j \in 1..n : f[i] = f[j] => i = j}

\* the mappings complete one by one, in the given order
RECURSIVE Settle(_, _, _, _)
Settle(results, entities, order, k) ==
  IF k > Len(order) THEN results
  ELSE Settle([results EXCEPT ![order[k]] =
                 toDtoWithRelations(entities[order[k]])],
              entities, order, k + 1)

\* mutant: the results are collected in the order of completion
PromiseAll_Push(entities, order) ==
  [k \in 1..Len(order) |-> toDtoWithRelations(entities[order[k]])]

\* lines 55-57: Promise.all(userEntities.map(UserMapper.toDtoWithRelations)),
\* each result lands at the index of its entity
PromiseAll(entities, order) ==
  Settle([k \in 1..Len(entities) |-> NoDto], entities, order, 1)

\* lines 55-58: Promise.all over the mapped entities, Pagination.of
getUsers_map(p) ==
  /\ pc[p] = "getUsers_map"
  /\ UNCHANGED <<db, calls>>
  /\ \/ \E error \in MapFaults : Finish(p, getUsers_catch(error), error)
     \/ \E order \in Orders(Len(page[p].entities)) :
          LET UserDtos == PromiseAll(page[p].entities, order)
          IN Finish(p, getUsers_return(arg[p], page[p].total, UserDtos),
                    NoError)

\* ------------------------------------------------------------ getUserById
getUserById(p) ==
  \E id \in Ids : Invoke(p, "getUserById", [id |-> id], "getUserById_findOne")

\* lines 77-84: nothing is caught
getUserById_findOne(p) ==
  /\ pc[p] = "getUserById_findOne"
  /\ Count(p, "find")
  /\ UNCHANGED db
  /\ \/ \E error \in FindFaults : Finish(p, Uncaught(error), error)
     \/ LET userEntity == findOne(db, arg[p].id)
        IN IF userEntity = Undefined
             THEN Finish(p, NotFoundException, NoError)
             ELSE Finish(p, getUserById_return(userEntity), NoError)

\* ------------------------------------------------------------ the program
Step(p) ==
  \/ createUser(p)
  \/ createUser_encrypt(p)
  \/ createUser_save(p)
  \/ createUserBase(p)
  \/ createUserBase_encrypt(p)
  \/ createUserBase_save(p)
  \/ updateUser(p)
  \/ updateUser_findOne(p)
  \/ updateUser_save(p)
  \/ changePassword(p)
  \/ changePassword_findOne(p)
  \/ changePassword_compare(p)
  \/ changePassword_encrypt(p)
  \/ changePassword_save(p)
  \/ blockUser(p)
  \/ blockUser_findOne(p)
  \/ blockUser_save(p)
  \/ getUsers(p)
  \/ getUsers_getUsersAndCount(p)
  \/ getUsers_map(p)
  \/ getUserById(p)
  \/ getUserById_findOne(p)

\* every caller may run every operation, calls overlapping freely
Next == \E p \in Procs : Step(p)

Spec == Init /\ [][Next]_vars

\* one caller: the calls run one after the other
NextSeq == Step("c1")

SpecSeq == Init /\ [][NextSeq]_vars

\* two callers that only create users
NextCreate ==
  \E p \in Procs :
    \/ createUser(p)
    \/ createUser_encrypt(p)
    \/ createUser_save(p)
    \/ createUserBase(p)
    \/ createUserBase_encrypt(p)
    \/ createUserBase_save(p)

SpecCreate == Init /\ [][NextCreate]_vars

\* a table that creates have filled: alice and bob, both active
SeedRow(i, u, pw, f) ==
  [id |-> i, username |-> u, password |-> encrypt(Plain(pw)),
   status |-> Active, firstName |-> f]
SeedTable ==
  [i \in Ids |-> IF i = 1 THEN SeedRow(1, "alice", "p@ss1", "Ann")
                 ELSE IF i = 2 THEN SeedRow(2, "bob", "p@ss2", "Bea")
                 ELSE Undefined]

InitSeeded ==
  /\ db = SeedTable
  /\ pc = [p \in Procs |-> "idle"]
  /\ op = [p \in Procs |-> "none"]
  /\ arg = [p \in Procs |-> NoArg]
  /\ ent = [p \in Procs |-> Undefined]
  /\ page = [p \in Procs |-> NoPage]
  /\ res = [p \in Procs |-> NoResult]
  /\ err = [p \in Procs |-> NoError]
  /\ calls = [p \in Procs |-> NoCalls]

\* an update by one caller overlapping blocks by the other, on a filled table
NextUpdateBlock ==
  \/ updateUser("c1")
  \/ updateUser_findOne("c1")
  \/ updateUser_save("c1")
  \/ blockUser("c2")
  \/ blockUser_findOne("c2")
  \/ blockUser_save("c2")

SpecUpdateBlock == InitSeeded /\ [][NextUpdateBlock]_vars

\* a table with one user, alice, and a free username
OneUserTable ==
  [i \in Ids |-> IF i = 1 THEN SeedRow(1, "alice", "p@ss1", "Ann")
                 ELSE Undefined]

InitOneUser ==
  /\ db = OneUserTable
  /\ pc = [p \in Procs |-> "idle"]
  /\ op = [p \in Procs |-> "none"]
  /\ arg = [p \in Procs |-> NoArg]
  /\ ent = [p \in Procs |-> Undefined]
  /\ page = [p \in Procs |-> NoPage]
  /\ res = [p \in Procs |-> NoResult]
  /\ err = [p \in Procs |-> NoError]
  /\ calls = [p \in Procs |-> NoCalls]

\* one update by a caller overlapping an update and then a create by the
\* other caller
NextUpdateCreate ==
  \/ op["c1"] = "none" /\ updateUser("c1")
  \/ updateUser_findOne("c1")
  \/ updateUser_save("c1")
  \/ op["c2"] = "none" /\ updateUser("c2")
  \/ updateUser_findOne("c2")
  \/ updateUser_save("c2")
  \/ op["c2"] = "updateUser" /\ createUser("c2")
  \/ createUser_encrypt("c2")
  \/ createUser_save("c2")

SpecUpdateCreate == InitOneUser /\ [][NextUpdateCreate]_vars

\* two callers that only change passwords, on a filled table
NextPassword ==
  \E p \in Procs :
    \/ changePassword(p)
    \/ changePassword_findOne(p)
    \/ changePassword_compare(p)
    \/ changePassword_encrypt(p)
    \/ changePassword_save(p)

SpecPassword == InitSeeded /\ [][NextPassword]_vars

\* ================================================================= claims
Stepped(p) == pc'[p] # pc[p]
Held(d, u) == \E i \in Stored(d) : d[i].username = u
CreateOps == {"createUser", "createUserBase"}
CreateSaves == {"createUser_save", "createUserBase_save"}
Finished(p) == pc[p] = "idle" /\ res[p].kind # "none"
Failed(p) == Finished(p) /\ res[p].kind # "ok"
UniqueViolation == QueryFailedError(PgUniqueConstraintViolation)

\* C1: a create (either variant) whose username is held by a stored user
\* stores nothing and does not succeed; when the save is answered by the
\* unique index (no timeout or other storage fault comes first) the call
\* fails with UserExists carrying exactly the username of the input.
C1_DuplicateCreateIsUserExists ==
  [][\A p \in Procs :
       (pc[p] \in CreateSaves /\ Stepped(p) /\ Held(db, arg[p].username))
       => /\ db' = db
          /\ res'[p].kind # "ok"
          /\ err'[p] \notin SaveFaults
               => /\ err'[p] = UniqueViolation
                  /\ res'[p] = UserExistsException(arg[p].username)]_vars

C1_Witness ==
  \E p \in Procs :
    /\ Finished(p) /\ op[p] = "createUserBase"
    /\ err[p] = UniqueViolation
    /\ res[p] = UserExistsException("alice")
    /\ Held(db, "alice")

\* C2: creates race only at the save; the table never holds two users with
\* one username, two creates of the same username never both succeed, and a
\* create that the unique index rejects ends with UserExists (every failed
\* create ends with one of the service's exceptions, never a raw error).
C2_CreateRace ==
  /\ \A i \in Stored(db), j \in Stored(db) :
       i # j => db[i].username # db[j].username
  /\ \A p \in Procs, q \in Procs :
       (p # q /\ Finished(p) /\ Finished(q)
          /\ op[p] \in CreateOps /\ op[q] \in CreateOps
          /\ res[p].kind = "ok" /\ res[q].kind = "ok")
       => arg[p].username # arg[q].username
  /\ \A p \in Procs :
       (Failed(p) /\ op[p] \in CreateOps)
       => /\ res[p].kind \in ServiceExceptions
          /\ err[p] = UniqueViolation
               => res[p] = UserExistsException(arg[p].username)

\* the loser of a race: its call overlapped the winner's
C2_Witness ==
  \E p \in Procs, q \in Procs :
    /\ p # q /\ Finished(p) /\ Finished(q)
    /\ op[p] = "createUser" /\ op[q] = "createUserBase"
    /\ calls[p].overlap /\ calls[q].overlap
    /\ arg[p].username = arg[q].username
    /\ res[p].kind = "ok"
    /\ res[q] = UserExistsException(arg[q].username)
    /\ Cardinality(Stored(db)) = 1

\* C3: the current password is verified before anything is persisted; a
\* changePassword whose currentPassword does not verify against the fetched
\* hash ends at the comparison: it throws InvalidCurrentPassword (unless the
\* comparator itself fails), has not called save, and leaves the table as
\* it was.
C3_WrongPasswordChangesNothing ==
  /\ [](\A p \in Procs :
          (op[p] = "changePassword"
             /\ (pc[p] \in {"changePassword_findOne", "changePassword_compare",
                            "changePassword_encrypt"}
                   \/ res[p] = InvalidCurrentPasswordException))
          => calls[p].save = 0)
  /\ [][\A p \in Procs :
          (pc[p] = "changePassword_compare" /\ Stepped(p)
             /\ ~compare(arg[p].currentPassword, ent[p].password))
          => /\ pc'[p] = "idle"
             /\ db' = db
             /\ calls'[p].save = 0
             /\ res'[p].kind # "ok"
             /\ err'[p] = NoError
                  => res'[p] = InvalidCurrentPasswordException]_vars

C3_Witness ==
  \E p \in Procs :
    /\ Finished(p) /\ op[p] = "changePassword"
    /\ res[p] = InvalidCurrentPasswordException
    /\ calls[p].save = 0 /\ calls[p].find = 1
    /\ arg[p].userId \in Stored(db)
    /\ ~compare(arg[p].currentPassword, db[arg[p].userId].password)

\* C4 as stated: once the current password has verified (the call went on
\* to hash the new one), the stored hash verifies the new password and no
\* longer the old one, whatever the save does and whichever the passwords.
C4_AlwaysReplaced ==
  \A p \in Procs :
    (Finished(p) /\ op[p] = "changePassword" /\ calls[p].hash = 1)
    => /\ compare(arg[p].newPassword, db[arg[p].userId].password)
       /\ ~compare(arg[p].currentPassword, db[arg[p].userId].password)

\* C4, amended: a changePassword that returns has stored a hash that the
\* new password verifies against; the old one no longer verifies when the
\* new password differs from it.
C4_ReplacedOnSuccess ==
  \A p \in Procs :
    (Finished(p) /\ op[p] = "changePassword" /\ res[p].kind = "ok")
    => /\ compare(arg[p].newPassword, db[arg[p].userId].password)
       /\ arg[p].newPassword # arg[p].currentPassword
            => ~compare(arg[p].currentPassword, db[arg[p].userId].password)

C4_Witness ==
  \E p \in Procs :
    /\ Finished(p) /\ op[p] = "changePassword" /\ res[p].kind = "ok"
    /\ arg[p].newPassword # arg[p].currentPassword
    /\ compare(arg[p].newPassword, db[arg[p].userId].password)

\* C5: getUsers never returns an empty page: a returned envelope has at
\* least one item and a non-zero total, and an answer of the repository
\* with no list, an empty list or a total of zero ends with NotFound.
C5_NoEmptyPage ==
  \A p \in Procs :
    (Finished(p) /\ op[p] = "getUsers")
    => /\ res[p].kind = "ok"
            => /\ Len(res[p].dto.content) >= 1
               /\ res[p].dto.totalRecords # 0
       /\ (calls[p].find = 1 /\ err[p] \notin FindFaults
             /\ (page[p].absent \/ Len(page[p].entities) = 0
                   \/ page[p].total = 0))
            => res[p] = NotFoundException

\* a page past the end of a table that is not empty
C5_Witness ==
  \E p \in Procs :
    /\ Finished(p) /\ op[p] = "getUsers"
    /\ res[p] = NotFoundException
    /\ ~page[p].absent /\ Len(page[p].entities) = 0 /\ page[p].total >= 1

\* C6: a create (either variant) of a username no stored user holds, whose
\* hash and save raise nothing, returns a dto with that username and without
\* a password field or the plaintext in any field, and stores exactly one
\* new row, with that username; a later create of the same username, once
\* the unique index answers it, fails with UserExists for that username.
NoCredential(dto, userDto) ==
  /\ "password" \notin DOMAIN dto
  /\ \A k \in DOMAIN dto \cap {"username", "status", "firstName"} :
       dto[k] # userDto.password

C6_FreshCreateSucceeds ==
  [][\A p \in Procs :
       (pc[p] \in CreateSaves /\ Stepped(p))
       => /\ (~Held(db, arg[p].username) /\ err'[p] = NoError)
               => /\ res'[p].kind = "ok"
                  /\ NoCredential(res'[p].dto, arg[p])
                  /\ res'[p].dto.username = arg[p].username
                  /\ \E i \in FreeIds(db) :
                       /\ Stored(db') = Stored(db) \cup {i}
                       /\ db'[i].username = arg[p].username
                       /\ res'[p].dto.id = i
                       /\ \A j \in Stored(db) : db'[j] = db[j]
          /\ res'[p].kind = "ok" => Held(db', arg[p].username)
          /\ (Held(db, arg[p].username) /\ err'[p] \notin SaveFaults)
               => res'[p] = UserExistsException(arg[p].username)]_vars

\* alice is created, and a second create of alice fails
C6_Witness ==
  \E p \in Procs, q \in Procs :
    /\ p # q /\ Finished(p) /\ Finished(q)
    /\ op[p] = "createUser" /\ op[q] = "createUser"
    /\ res[p].kind = "ok" /\ res[p].dto.username = "alice"
    /\ arg[p].password = "p@ss1"
    /\ res[q] = UserExistsException("alice")
    /\ ~calls[q].overlap

\* C7: a successful updateUser(id, partialDto) leaves every field of row id
\* that the partial dto does not hold at the value the table held right
\* before the save, and writes every field it holds; updateUser of an id
\* that is not stored ends with NotFound and has not called save.
C7_UpdateKeepsAbsentFields ==
  [][\A p \in Procs :
       /\ (pc[p] = "updateUser_save" /\ Stepped(p) /\ res'[p].kind = "ok")
            => \A k \in DOMAIN db[arg[p].id] :
                 db'[arg[p].id][k] =
                   IF k \in DOMAIN arg[p].userDto
                     THEN arg[p].userDto[k] ELSE db[arg[p].id][k]
       /\ (pc[p] = "updateUser_findOne" /\ Stepped(p)
             /\ arg[p].id \notin Stored(db) /\ err'[p] \notin FindFaults)
            => res'[p] = NotFoundException /\ calls'[p].save = 0]_vars

\* C8: every failure of updateUser and of changePassword is one of the
\* kinds the interface lists for it, also when the initial fetch fails.
C8_FailureKinds ==
  \A p \in Procs :
    Failed(p)
    => /\ op[p] = "updateUser"
            => res[p].kind \in
                 {"NotFoundException", "UserExistsException",
                  "ForeignKeyConflictException", "RequestTimeoutException",
                  "InternalServerErrorException"}
       /\ op[p] = "changePassword"
            => res[p].kind \in
                 {"NotFoundException", "InvalidCurrentPasswordException",
                  "RequestTimeoutException", "InternalServerErrorException"}

\* C9: every failure of blockUser is RequestTimeout when the persistence
\* layer timed out and InternalError otherwise, for every id and at either
\* the fetch or the save.
C9_BlockFailureKinds ==
  \A p \in Procs :
    (Failed(p) /\ op[p] = "blockUser")
    => res[p] = IF err[p] = TimeoutError THEN RequestTimeoutException
                ELSE InternalServerErrorException

\* C10: blockUser works on the row as its findOne read it; when it returns,
\* the save has stored that row with status Blocked and nothing else of it
\* changed, the returned dto has status Blocked, and every other row of the
\* table is as it was before the save.
C10_BlockSetsStatusOnly ==
  [][\A p \in Procs :
       /\ (pc[p] = "blockUser_findOne" /\ Stepped(p)
             /\ pc'[p] = "blockUser_save")
            => \A k \in DOMAIN db[arg[p].id] \ {"status"} :
                 ent'[p][k] = db[arg[p].id][k]
       /\ (pc[p] = "blockUser_save" /\ Stepped(p) /\ res'[p].kind = "ok")
            => /\ db'[arg[p].id].status = Blocked
               /\ res'[p].dto.status = Blocked
               /\ res'[p].dto.id = arg[p].id
               /\ \A k \in DOMAIN ent[p] \ {"status"} :
                    db'[arg[p].id][k] = ent[p][k]
               /\ \A j \in Ids \ {arg[p].id} : db'[j] = db[j]]_vars

\* a block that overlapped an update of the same user
C10_Witness ==
  \E p \in Procs, q \in Procs :
    /\ Finished(p) /\ op[p] = "blockUser" /\ res[p].kind = "ok"
    /\ res[p].dto.status = Blocked
    /\ db[arg[p].id].status = Blocked
    /\ calls[p].overlap
    /\ op[q] = "updateUser" /\ arg[q].id = arg[p].id

\* C11: Blocked is terminal: a stored user whose status is Blocked is Blocked
\* after every step of the service, whatever the interleaving, and the only
\* change of a stored user's status that a step makes is Active to Blocked.
C11_BlockedIsTerminal ==
  [][\A i \in Stored(db) :
       /\ db[i].status = Blocked => db'[i].status = Blocked
       /\ db'[i].status # db[i].status
            => db[i].status = Active /\ db'[i].status = Blocked]_vars

\* C12: createUser and createUserBase map the errors of the hash and save
\* steps alike: a failed create ends with UserExists (for its username) on a
\* uniqueness violation, ForeignKeyConflict on a foreign-key or not-null
\* violation, RequestTimeout on a timeout and InternalError on anything
\* else; two failed creates of different variants that met the same error
\* end with the same failure kind, and no raw error leaves a create.
C12_CreateFailuresAlike ==
  /\ \A p \in Procs :
       (Failed(p) /\ op[p] \in CreateOps)
       => /\ err[p] # NoError
          /\ res[p] =
               IF err[p] = QueryFailedError(PgUniqueConstraintViolation)
                 THEN UserExistsException(arg[p].username)
               ELSE IF err[p] \in
                         {QueryFailedError(PgForeignKeyConstraintViolation),
                          QueryFailedError(PgNotNullConstraintViolation)}
                 THEN ForeignKeyConflictException
               ELSE IF err[p] = TimeoutError THEN RequestTimeoutException
               ELSE InternalServerErrorException
  /\ \A p \in Procs, q \in Procs :
       (Failed(p) /\ Failed(q) /\ op[p] = "createUser"
          /\ op[q] = "createUserBase" /\ err[p] = err[q])
       => res[p].kind = res[q].kind

\* both variants met a not-null violation at their save
C12_Witness ==
  \E p \in Procs, q \in Procs :
    /\ Failed(p) /\ Failed(q)
    /\ op[p] = "createUser" /\ op[q] = "createUserBase"
    /\ err[p] = QueryFailedError(PgNotNullConstraintViolation)
    /\ err[q] = err[p]
    /\ calls[p].save = 1 /\ calls[q].save = 1
    /\ res[p] = ForeignKeyConflictException
    /\ res[q] = ForeignKeyConflictException

\* C13: every failure of getUsers is NotFound, RequestTimeout or
\* InternalError: a timeout of the data layer ends as RequestTimeout, the
\* NotFound thrown for an empty page ends as NotFound, and any other error
\* of the fetch, of the mapping or of the pagination wrapping ends as
\* InternalError.
C13_GetUsersFailures ==
  \A p \in Procs :
    (Failed(p) /\ op[p] = "getUsers")
    => /\ res[p] \in {NotFoundException, RequestTimeoutException,
                      InternalServerErrorException}
       /\ err[p] = TimeoutError => res[p] = RequestTimeoutException
       /\ err[p] = NoError
            => /\ res[p] = NotFoundException
               /\ page[p].absent \/ Len(page[p].entities) = 0
                    \/ page[p].total = 0
       /\ err[p] \notin {NoError, TimeoutError}
            => res[p] = InternalServerErrorException

\* the mapping of a fetched page threw
C13_Witness ==
  \E p \in Procs :
    /\ Failed(p) /\ op[p] = "getUsers"
    /\ err[p] = TypeError
    /\ Len(page[p].entities) >= 1 /\ page[p].total >= 1
    /\ res[p] = InternalServerErrorException

\* C14: an updateUser that fails with UserExists carries the conflicting
\* username: one that the update set in its input and that another stored
\* user holds; so also for a partial input without the username field.
C14_UserExistsNamesConflict ==
  [][\A p \in Procs :
       (pc[p] = "updateUser_save" /\ Stepped(p)
          /\ res'[p].kind = "UserExistsException")
       => /\ "username" \in DOMAIN arg[p].userDto
          /\ res'[p].username = arg[p].userDto["username"]
          /\ \E i \in Stored(db) \ {arg[p].id} :
               db[i].username = res'[p].username]_vars

\* C15: no operation retries: a call invokes the repository's fetch at most
\* once and its save at most once; the step in which a collaborator reports
\* an error ends the call with a failure, so no repository call follows it,
\* and the outcome a call has reported is not replaced before the next call.
C15_NoRetry ==
  /\ [](\A p \in Procs :
          /\ calls[p].find <= 1
          /\ calls[p].save <= 1
          /\ err[p] # NoError => Failed(p))
  /\ [][\A p \in Procs :
          /\ (err'[p] # NoError /\ err[p] = NoError)
               => /\ pc'[p] = "idle"
                  /\ res'[p].kind \notin {"none", "ok"}
          /\ (pc[p] = "idle" /\ pc'[p] = "idle")
               => res'[p] = res[p] /\ calls'[p] = calls[p]
          /\ (res[p].kind # "none" /\ res'[p] # res[p])
               => pc[p] = "idle" /\ res'[p] = NoResult]_vars

\* a save that timed out after the fetch
C15_Witness ==
  \E p \in Procs :
    /\ Failed(p) /\ op[p] = "blockUser"
    /\ err[p] = TimeoutError
    /\ calls[p].find = 1 /\ calls[p].save = 1
    /\ res[p] = RequestTimeoutException

\* C16: create and change-password never persist a plaintext credential:
\* the entity that createUser, createUserBase and changePassword pass to
\* save has as password the hasher's output for the plaintext of the input,
\* the hasher has completed before save is called, a call whose hashing
\* failed has not called save, and every stored password is a digest.
C16_OnlyDigestsSaved ==
  /\ [](/\ \A p \in Procs :
            /\ pc[p] \in CreateSaves
                 => /\ calls[p].hash = 1 /\ calls[p].save = 0
                    /\ ent[p].password = encrypt(Plain(arg[p].password))
            /\ pc[p] = "changePassword_save"
                 => /\ calls[p].hash = 1 /\ calls[p].save = 0
                    /\ ent[p].password = encrypt(Plain(arg[p].newPassword))
            /\ (op[p] \in CreateOps \cup {"changePassword"}
                  /\ calls[p].save = 1)
                 => calls[p].hash = 1
        /\ \A i \in Stored(db) :
             /\ db[i].password.form = "bcrypt"
             /\ db[i].password # Plain(db[i].password.of))
  /\ [][\A p \in Procs :
          /\ (pc[p] \in {"createUser_encrypt", "createUserBase_encrypt",
                         "changePassword_encrypt"}
                /\ Stepped(p) /\ err'[p] # NoError)
               => /\ pc'[p] = "idle"
                  /\ res'[p] = InternalServerErrorException
                  /\ calls'[p].save = 0
                  /\ db' = db
          /\ (pc[p] \in CreateSaves /\ Stepped(p) /\ res'[p].kind = "ok")
               => \E i \in FreeIds(db) :
                    db'[i].password = encrypt(Plain(arg[p].password))
          /\ (pc[p] = "changePassword_save" /\ Stepped(p)
                /\ res'[p].kind = "ok")
               => db'[arg[p].userId].password =
                    encrypt(Plain(arg[p].newPassword))]_vars

\* a create and, after it, a change of password have stored digests
C16_Witness ==
  \E p \in Procs :
    /\ Finished(p) /\ op[p] = "changePassword" /\ res[p].kind = "ok"
    /\ arg[p].newPassword # arg[p].currentPassword
    /\ calls[p].hash = 1 /\ calls[p].save = 1
    /\ db[arg[p].userId].password = encrypt(Plain(arg[p].newPassword))

\* C17: a getUsers that returns holds one dto per entity of the fetched
\* page, at the same position as its entity, in whatever order the mappings
\* completed: nothing is re-sorted, dropped or duplicated, and the total of
\* the envelope is the total the repository returned.
C17_PageInRepositoryOrder ==
  \A p \in Procs :
    (Finished(p) /\ op[p] = "getUsers" /\ res[p].kind = "ok")
    => /\ Len(res[p].dto.content) = Len(page[p].entities)
       /\ \A k \in 1..Len(page[p].entities) :
            /\ res[p].dto.content[k].id = page[p].entities[k].id
            /\ res[p].dto.content[k].username = page[p].entities[k].username
            /\ res[p].dto.content[k].status = page[p].entities[k].status
            /\ res[p].dto.content[k].firstName
                 = page[p].entities[k].firstName
       /\ res[p].dto.totalRecords = page[p].total
       /\ res[p].dto.currentPage = arg[p].page

\* a page of two users
C17_Witness ==
  \E p \in Procs :
    /\ Finished(p) /\ op[p] = "getUsers" /\ res[p].kind = "ok"
    /\ Len(res[p].dto.content) = 2
    /\ res[p].dto.content[1].id = 1 /\ res[p].dto.content[2].id = 2
    /\ res[p].dto.totalRecords = 2

\* C18: a changePassword that returns has saved over a stored hash that its
\* currentPassword verifies: at the step of its save the currentPassword
\* matches the hash the table holds for the user right before the save, in
\* every interleaving of changePassword calls on the same user.
C18_VerifiedAtSave ==
  [][\A p \in Procs :
       (pc[p] = "changePassword_save" /\ Stepped(p) /\ res'[p].kind = "ok")
       => compare(arg[p].currentPassword, db[arg[p].userId].password)]_vars

====
